---- MODULE Spec2Model ----
(***************************************************************************)
(* Model of m1-02-summary-functions.py: validation and summary functions   *)
(* of the support ticket analysis pipeline.                                *)
(*                                                                         *)
(* A ticket is a Python dict; it is modelled as a function whose DOMAIN is *)
(* the set of keys the dict holds.  A Python value is modelled as a record *)
(* whose kind is the Python type name.  None, int, bool, str and list are  *)
(* [kind, num, text]: num is the integer itself for int and 0/1 for bool,  *)
(* text the payload of a str.  A float is [kind, sign, mant, exp], the     *)
(* binary64 number it is in CPython, infinities and NaNs included.         *)
(***************************************************************************)
EXTENDS Integers, Sequences, FiniteSets, TLC

VARIABLES tickets, snapshot, pc, fn, required_keys, index, temp_stats, result

vars == <<tickets, snapshot, pc, fn, required_keys, index, temp_stats, result>>

(* Longest ticket sequence the model explores. *)
MaxLen == 3

-----------------------------------------------------------------------------
(* Python values *)

None == [kind |-> "NoneType", num |-> 0, text |-> ""]

(* An int; the model holds those of 32 bits. *)
PyInt(n) == [kind |-> "int", num |-> n, text |-> ""]

PyBool(b) == [kind |-> "bool", num |-> IF b THEN 1 ELSE 0, text |-> ""]

PyStr(s) == [kind |-> "str", num |-> 0, text |-> s]

(* A list value, the one unhashable kind of the model. *)
PyList(s) == [kind |-> "list", num |-> 0, text |-> s]

(* Marker for a key the dict does not hold; never stored in a ticket. *)
Absent == [kind |-> "absent", num |-> 0, text |-> ""]

Keys == {"ticket_id", "category", "priority", "resolution_minutes"}

(* The dict literal holding the given fields, leaving out the Absent ones. *)
MkTicket(id, cat, pri, mins) ==
    LET f == [k \in Keys |->
                 CASE k = "ticket_id" -> id
                   [] k = "category" -> cat
                   [] k = "priority" -> pri
                   [] k = "resolution_minutes" -> mins]
    IN  [k \in {x \in Keys : f[x] # Absent} |-> f[k]]

(* dict.get(key, default) *)
Get(t, key, default) == IF key \in DOMAIN t THEN t[key] ELSE default

(* isinstance(v, int): bool is a subclass of int *)
IsInt(v) == v.kind \in {"int", "bool"}

(* isinstance(v, (int, float)) *)
IsNumeric(v) == v.kind \in {"int", "bool", "float"}

(* hash(v) succeeds *)
Hashable(v) == v.kind # "list"

-----------------------------------------------------------------------------
(* Natural numbers of any size: little-endian sequences of limbs below     *)
(* Base, without leading zero limbs; <<>> is zero.  They carry the 53-bit  *)
(* significands of floats and the wider intermediate results.              *)

Base == 32768

RECURSIVE Pow2(_)
Pow2(k) == IF k = 0 THEN 1 ELSE 2 * Pow2(k - 1)

RECURSIVE BitLenSmall(_)
BitLenSmall(n) == IF n = 0 THEN 0 ELSE 1 + BitLenSmall(n \div 2)

RECURSIVE BigFromNat(_)
BigFromNat(n) == IF n = 0 THEN <<>> ELSE <<n % Base>> \o BigFromNat(n \div Base)

RECURSIVE BigToNat(_)
BigToNat(a) == IF a = <<>> THEN 0 ELSE a[1] + Base * BigToNat(Tail(a))

RECURSIVE BigTrim(_)
BigTrim(a) ==
    IF a = <<>> \/ a[Len(a)] # 0 THEN a ELSE BigTrim(SubSeq(a, 1, Len(a) - 1))

RECURSIVE BigAddC(_, _, _)
BigAddC(a, b, c) ==
    IF a = <<>> /\ b = <<>> THEN (IF c = 0 THEN <<>> ELSE <<c>>)
    ELSE LET s == (IF a = <<>> THEN 0 ELSE a[1]) + (IF b = <<>> THEN 0 ELSE b[1]) + c
         IN  <<s % Base>> \o BigAddC(IF a = <<>> THEN <<>> ELSE Tail(a),
                                     IF b = <<>> THEN <<>> ELSE Tail(b),
                                     s \div Base)

BigAdd(a, b) == BigAddC(a, b, 0)

(* a - b - c for a >= b + c, before trimming *)
RECURSIVE BigSubB(_, _, _)
BigSubB(a, b, c) ==
    IF a = <<>> THEN <<>>
    ELSE LET d == a[1] - (IF b = <<>> THEN 0 ELSE b[1]) - c
         IN  <<IF d < 0 THEN d + Base ELSE d>>
                 \o BigSubB(Tail(a), IF b = <<>> THEN <<>> ELSE Tail(b),
                            IF d < 0 THEN 1 ELSE 0)

BigSub(a, b) == BigTrim(BigSubB(a, b, 0))

RECURSIVE BigCmpFrom(_, _, _)
BigCmpFrom(a, b, i) ==
    IF i = 0 THEN 0
    ELSE IF a[i] < b[i] THEN -1
    ELSE IF a[i] > b[i] THEN 1
    ELSE BigCmpFrom(a, b, i - 1)

(* -1, 0 or 1 as a is below, equal to or above b *)
BigCmp(a, b) ==
    IF Len(a) < Len(b) THEN -1
    ELSE IF Len(a) > Len(b) THEN 1
    ELSE BigCmpFrom(a, b, Len(a))

RECURSIVE BigMulC(_, _, _)
BigMulC(a, m, c) ==
    IF a = <<>> THEN (IF c = 0 THEN <<>> ELSE <<c>>)
    ELSE LET p == a[1] * m + c
         IN  <<p % Base>> \o BigMulC(Tail(a), m, p \div Base)

(* a * m for 0 <= m <= Base *)
BigMulSmall(a, m) == IF m = 0 THEN <<>> ELSE BigMulC(a, m, 0)

RECURSIVE BigDivFrom(_, _, _, _)
BigDivFrom(a, d, i, r) ==
    IF i = 0 THEN [q |-> <<>>, r |-> r]
    ELSE LET cur == r * Base + a[i]
             rest == BigDivFrom(a, d, i - 1, cur % d)
         IN  [q |-> Append(rest.q, cur \div d), r |-> rest.r]

(* quotient and remainder of a by d, 0 < d <= Base *)
BigDivSmall(a, d) ==
    LET x == BigDivFrom(a, d, Len(a), 0)
    IN  [q |-> BigTrim(x.q), r |-> x.r]

(* a * 2^k: whole limbs of zeros below a * 2^(k % 15) *)
BigShl(a, k) ==
    IF a = <<>> THEN <<>>
    ELSE [i \in 1..(k \div 15) |-> 0] \o BigMulSmall(a, Pow2(k % 15))

(* a \div 2^k: whole limbs dropped, the rest divided by 2^(k % 15) *)
BigShr(a, k) ==
    IF k \div 15 >= Len(a) THEN <<>>
    ELSE BigDivSmall(SubSeq(a, k \div 15 + 1, Len(a)), Pow2(k % 15)).q

BigBitLen(a) == IF a = <<>> THEN 0 ELSE 15 * (Len(a) - 1) + BitLenSmall(a[Len(a)])

BigIsOdd(a) == a # <<>> /\ a[1] % 2 = 1

(* q or q + 1, for q the quotient of a by 2^k and c the comparison of the  *)
(* remainder with half of 2^k                                              *)
RoundedUp(q, c) ==
    IF c > 0 \/ (c = 0 /\ BigIsOdd(q)) THEN BigAdd(q, <<1>>) ELSE q

RoundFrom(a, k, q) ==
    RoundedUp(q, BigCmp(BigSub(a, BigShl(q, k)), BigShl(<<1>>, k - 1)))

(* a / 2^k for k > 0, rounded to the nearest integer, a tie to the even one *)
BigRoundShr(a, k) == RoundFrom(a, k, BigShr(a, k))

-----------------------------------------------------------------------------
(* Floats: IEEE 754 binary64 with round-to-nearest-even, as CPython's      *)
(* float.  A finite float is (-1)^sign * mant * 2^exp: a normal one has    *)
(* 2^52 <= mant < 2^53 and MinExp <= exp <= MaxExp, a subnormal one has    *)
(* 0 < mant < 2^52 and exp = MinExp, a zero has mant = <<>> and exp = 0.   *)
(* An infinity has exp = InfExp and mant = <<>>.  A NaN has exp = InfExp   *)
(* and mant = <<id>>: id tells NaN objects apart (a dict looks a key up by *)
(* identity before equality, and a NaN equals nothing), 0 being a NaN that *)
(* an operation made.                                                      *)

(* The exponent of the last place of the smallest and of the largest       *)
(* finite floats, and the exponent that marks an infinity or a NaN.        *)
MinExp == -1074

MaxExp == 971

InfExp == 1024

Inf(sign) == [kind |-> "float", sign |-> sign, mant |-> <<>>, exp |-> InfExp]

NaNObject(id) == [kind |-> "float", sign |-> 0, mant |-> <<id>>, exp |-> InfExp]

NaN == NaNObject(0)

(* The float of significand M at exponent E; a magnitude of 2^1024 or more *)
(* overflows to an infinity, a significand 0 is a zero.                    *)
FloatRecord(sign, M, E) ==
    IF M = <<>> THEN [kind |-> "float", sign |-> sign, mant |-> <<>>, exp |-> 0]
    ELSE IF E + BigBitLen(M) > InfExp THEN Inf(sign)
    ELSE [kind |-> "float", sign |-> sign, mant |-> M, exp |-> E]

(* M has at most 53 bits, or 54 when the rounding carried. *)
Renormalized(sign, M, E, carried) ==
    FloatRecord(sign, IF carried THEN BigShr(M, 1) ELSE M, IF carried THEN E + 1 ELSE E)

RoundedFloat(sign, M, E) == Renormalized(sign, M, E, BigBitLen(M) > 53)

(* The exponent of the last place kept: 53 bits, fewer below the normal    *)
(* range.                                                                  *)
UlpExp(q) == IF q < MinExp THEN MinExp ELSE q

(* The float nearest to (-1)^sign * N * 2^E with its last place at 2^q. *)
MakeFloatAt(sign, N, E, q) ==
    IF q <= E THEN FloatRecord(sign, BigShl(N, E - q), q)
    ELSE RoundedFloat(sign, BigRoundShr(N, q - E), q)

(* The float nearest to (-1)^sign * N * 2^E, N of L bits. *)
MakeFloatOfLen(sign, N, E, L) ==
    IF N = <<>> THEN FloatRecord(sign, <<>>, 0)
    ELSE MakeFloatAt(sign, N, E, UlpExp(E + L - 53))

(* The float nearest to (-1)^sign * N * 2^E. *)
MakeFloat(sign, N, E) == MakeFloatOfLen(sign, N, E, BigBitLen(N))

(* The float nearest to a quotient x = [q, r] scaled by 2^(E + 1): a       *)
(* sticky bit below q records a remainder.                                 *)
WithSticky(sign, x, E) ==
    MakeFloat(sign, BigAdd(BigShl(x.q, 1), IF x.r = 0 THEN <<>> ELSE <<1>>), E)

QuotientShifted(sign, N, E, d, k) ==
    WithSticky(sign, BigDivSmall(BigShl(N, k), d), E - k - 1)

ShiftFor(need) == IF need > 0 THEN need ELSE 0

(* The float nearest to (-1)^sign * N * 2^E / d, 0 < d <= Base: the        *)
(* quotient is taken to 56 bits or more and a sticky bit records a         *)
(* remainder, so the one rounding is that of the exact quotient.           *)
FloatOfQuotient(sign, N, E, d) ==
    QuotientShifted(sign, N, E, d, ShiftFor(56 + BitLenSmall(d) - BigBitLen(N)))

Abs(n) == IF n < 0 THEN -n ELSE n

SignOf(n) == IF n < 0 THEN 1 ELSE 0

(* v is an infinity or a NaN; an int or bool never is. *)
IsSpecial(v) == v.kind = "float" /\ v.exp = InfExp

IsInf(v) == IsSpecial(v) /\ v.mant = <<>>

IsNaN(v) == IsSpecial(v) /\ v.mant # <<>>

(* A finite number v, int, bool or float, is                               *)
(* (-1)^NumSign * NumMag * 2^NumExp.                                       *)
NumSign(v) == IF v.kind = "float" THEN v.sign ELSE SignOf(v.num)

NumMag(v) == IF v.kind = "float" THEN v.mant ELSE BigFromNat(Abs(v.num))

NumExp(v) == IF v.kind = "float" THEN v.exp ELSE 0

(* The float literal n/d (0.25 is PyFloat(1, 4), 0.1 is PyFloat(1, 10)):   *)
(* the float nearest to the quotient, 0 < d <= Base.                       *)
PyFloat(n, d) == FloatOfQuotient(SignOf(n), BigFromNat(Abs(n)), 0, d)

(* sys.float_info.max, (2^53 - 1) * 2^971 *)
MaxFloat == FloatRecord(0, BigSub(BigShl(<<1>>, 53), <<1>>), MaxExp)

IsZero(x) == x.mant = <<>> /\ x.exp = 0

(* The float nearest to the sum of (-1)^sx * a * 2^E and (-1)^sy * b * 2^E *)
(* for c the comparison of a with b; an exact cancellation gives +0.0.     *)
SumOfCompared(sx, a, sy, b, E, c) ==
    MakeFloat(IF sx = sy THEN sx ELSE IF c > 0 THEN sx ELSE IF c < 0 THEN sy ELSE 0,
              IF sx = sy THEN BigAdd(a, b)
              ELSE IF c >= 0 THEN BigSub(a, b) ELSE BigSub(b, a),
              E)

AlignedSum(sx, a, sy, b, E) == SumOfCompared(sx, a, sy, b, E, BigCmp(a, b))

FloatAddAt(x, y, E) ==
    AlignedSum(NumSign(x), BigShl(NumMag(x), NumExp(x) - E),
               NumSign(y), BigShl(NumMag(y), NumExp(y) - E), E)

(* y is zero, or below 2^-67 of a nonzero x in magnitude (a significand    *)
(* has at most 53 bits): x + y rounds to x.                                *)
Negligible(y, x) ==
    /\ NumMag(x) # <<>>
    /\ (NumMag(y) = <<>> \/ NumExp(x) - NumExp(y) > 120)

(* x + y as floats, for numbers x and y: a NaN if either is one or if they *)
(* are opposite infinities, the infinity if one is, else the exact sum     *)
(* rounded once.                                                           *)
FloatAdd(x, y) ==
    IF IsNaN(x) \/ IsNaN(y) THEN NaN
    ELSE IF IsInf(x) THEN (IF IsInf(y) /\ y.sign # x.sign THEN NaN ELSE x)
    ELSE IF IsInf(y) THEN y
    ELSE IF Negligible(y, x) THEN MakeFloat(NumSign(x), NumMag(x), NumExp(x))
    ELSE IF Negligible(x, y) THEN MakeFloat(NumSign(y), NumMag(y), NumExp(y))
    ELSE FloatAddAt(x, y, IF NumExp(x) < NumExp(y) THEN NumExp(x) ELSE NumExp(y))

(* x * 100 on a float *)
FloatMul100(x) ==
    IF IsNaN(x) THEN NaN
    ELSE IF IsInf(x) THEN x
    ELSE MakeFloat(x.sign, BigMulSmall(x.mant, 100), x.exp)

(* |x| * 100 rounded to the nearest integer, a tie to the even one, for a  *)
(* finite x                                                                *)
RoundedHundredths(x) ==
    IF x.exp >= 0 THEN BigShl(BigMulSmall(x.mant, 100), x.exp)
    ELSE BigRoundShr(BigMulSmall(x.mant, 100), -x.exp)

(* round(x, 2) on a float: the decimal with 2 digits nearest to the exact  *)
(* value of x, a tie to the even digit, read back as a float; an infinity  *)
(* or a NaN is returned as it is.                                          *)
FloatRound2(x) ==
    IF IsNaN(x) THEN NaN
    ELSE IF IsZero(x) \/ x.exp >= 0 THEN x
    ELSE FloatOfQuotient(x.sign, RoundedHundredths(x), 0, 100)

-----------------------------------------------------------------------------
(* Python arithmetic and comparison on the values *)

(* The float an int, bool or float takes part in float arithmetic as. *)
ToFloat(v) == IF IsSpecial(v) THEN v ELSE MakeFloat(NumSign(v), NumMag(v), NumExp(v))

(* a + b on numbers: int when both are int or bool, float otherwise *)
Add(a, b) ==
    IF IsInt(a) /\ IsInt(b)
    THEN PyInt(a.num + b.num)
    ELSE FloatAdd(a, b)

(* total / count, count a positive int: the float nearest to the quotient *)
TrueDiv(total, count) ==
    IF IsNaN(total) THEN NaN
    ELSE IF IsInf(total) THEN total
    ELSE FloatOfQuotient(NumSign(total), NumMag(total), NumExp(total), count)

(* A float with the sign of a zero dropped: 0.0 == -0.0. *)
Canonical(f) == IF IsZero(f) THEN FloatRecord(0, <<>>, 0) ELSE f

(* a == b: numbers compare by value across int, bool and float (1 == True  *)
(* == 1.0, 0.0 == -0.0), a NaN equals nothing, not even itself; other      *)
(* values compare only with their own kind.                                *)
PyEq(a, b) ==
    IF IsNaN(a) \/ IsNaN(b) THEN FALSE
    ELSE IF a = b THEN TRUE
    ELSE IF IsNumeric(a) /\ IsNumeric(b)
    THEN Cardinality({Canonical(ToFloat(v)) : v \in {a, b}}) = 1
    ELSE FALSE

(* k, or the one key of m when m is not empty. *)
StoredOr(m, k) == IF m = {} THEN k ELSE CHOOSE e \in m : TRUE

(* The key under which dict d holds k: the key already stored that is k or *)
(* equals k, or k itself when there is none.                               *)
DictKey(d, k) == StoredOr({e \in DOMAIN d : e = k \/ PyEq(e, k)}, k)

(* What a call leaves behind: a returned value or a raised exception. *)
Returned(v) == [raised |-> FALSE, value |-> v]

Raised(e) == [raised |-> TRUE, value |-> e]

NoResult == [raised |-> FALSE, value |-> "pending"]

EmptyDict == [k \in {} |-> 0]

(* d with key set to empty when d does not hold key: the `if key not in d: *)
(* d[key] = ...` of both grouping loops.                                   *)
WithGroup(d, key, empty) == IF key \in DOMAIN d THEN d ELSE d @@ (key :> empty)

-----------------------------------------------------------------------------
(* validate_keys *)

(* Variant: a ticket is flagged only when it holds none of the required keys. *)
LacksRequiredKey_none_present(ticket, rk) == rk \cap DOMAIN ticket = {}

(* not set(required_keys).issubset(ticket.keys()) *)
LacksRequiredKey(ticket, rk) == ~(rk \subseteq DOMAIN ticket)

(* The loop of validate_keys from 0-based position i on. *)
RECURSIVE validate_keys_loop(_, _, _, _)
validate_keys_loop(tks, rk, i, missing_key_indices) ==
    IF i >= Len(tks) THEN missing_key_indices
    ELSE validate_keys_loop(tks, rk, i + 1,
             IF LacksRequiredKey(tks[i + 1], rk)
             THEN Append(missing_key_indices, i)
             ELSE missing_key_indices)

validate_keys(tks, rk) == validate_keys_loop(tks, rk, 0, <<>>)

-----------------------------------------------------------------------------
(* find_invalid_resolutions *)

(* Variant: the exact type is required, so a boolean is flagged. *)
IsInvalidResolution_exact_type(val) == val = None \/ val.kind # "int"

(* The test that flags a value. *)
IsInvalidResolution(val) == val = None \/ ~IsInt(val)

(* The diagnostic record appended for the ticket at 0-based position i. *)
InvalidRecord(i, ticket) ==
    LET val == Get(ticket, "resolution_minutes", None)
    IN  [index |-> i,
         ticket_id |-> Get(ticket, "ticket_id", PyStr("UNKNOWN")),
         invalid_value |-> val,
         issue_type |-> IF val = None THEN "Missing" ELSE "Wrong Type"]

RECURSIVE find_invalid_loop(_, _, _)
find_invalid_loop(tks, i, invalid_records) ==
    IF i >= Len(tks) THEN invalid_records
    ELSE find_invalid_loop(tks, i + 1,
             IF IsInvalidResolution(Get(tks[i + 1], "resolution_minutes", None))
             THEN Append(invalid_records, InvalidRecord(i, tks[i + 1]))
             ELSE invalid_records)

find_invalid_resolutions(tks) == find_invalid_loop(tks, 0, <<>>)

-----------------------------------------------------------------------------
(* get_average_resolution_by_category *)

(* {'total': 0, 'count': 0} *)
NewStats == [total |-> PyInt(0), count |-> 0]

(* temp_stats[cat]['total'] += mins; temp_stats[cat]['count'] += 1 *)
Accumulated(stats, key, mins) ==
    [stats EXCEPT ![key] = [total |-> Add(@.total, mins), count |-> @.count + 1]]

(* The group of the category is created if need be, then added to. *)
AvgStore(stats, key, mins) ==
    [raised |-> FALSE,
     stats |-> Accumulated(WithGroup(stats, key, NewStats), key, mins)]

(* The body after cat and mins are read: a non-numeric mins skips the      *)
(* ticket before its group is looked up.                                   *)
AvgBodyOf(stats, cat, mins) ==
    IF ~IsNumeric(mins) THEN [raised |-> FALSE, stats |-> stats]
    ELSE IF ~Hashable(cat) THEN [raised |-> TRUE, stats |-> stats]
    ELSE AvgStore(stats, DictKey(stats, cat), mins)

GroupFirstStore(stats, key, mins) ==
    [raised |-> FALSE,
     stats |-> IF ~IsNumeric(mins) THEN WithGroup(stats, key, NewStats)
               ELSE Accumulated(WithGroup(stats, key, NewStats), key, mins)]

CountAllStore(stats, key, mins) ==
    [raised |-> FALSE,
     stats |-> [WithGroup(stats, key, NewStats) EXCEPT ![key] =
                   [total |-> IF IsNumeric(mins) THEN Add(@.total, mins) ELSE @.total,
                    count |-> @.count + 1]]]

GroupFirstOf(stats, cat, mins) ==
    IF ~Hashable(cat) THEN [raised |-> TRUE, stats |-> stats]
    ELSE GroupFirstStore(stats, DictKey(stats, cat), mins)

CountAllOf(stats, cat, mins) ==
    IF ~Hashable(cat) THEN [raised |-> TRUE, stats |-> stats]
    ELSE CountAllStore(stats, DictKey(stats, cat), mins)

(* Variant: the group is created before the type of the value is checked.  *)
AvgBody_group_first(stats, t) ==
    GroupFirstOf(stats, Get(t, "category", PyStr("Unknown")),
                 Get(t, "resolution_minutes", PyInt(0)))

(* Variant: an absent resolution_minutes reads as null, not as 0. *)
AvgBody_no_default(stats, t) ==
    AvgBodyOf(stats, Get(t, "category", PyStr("Unknown")),
              Get(t, "resolution_minutes", None))

(* Variant: a non-numeric value is left out of the sum but still counted.  *)
AvgBody_count_all(stats, t) ==
    CountAllOf(stats, Get(t, "category", PyStr("Unknown")),
               Get(t, "resolution_minutes", PyInt(0)))

(* One pass through the body of the grouping loop for ticket t: the new    *)
(* temp_stats, or the TypeError of hashing an unhashable category.         *)
AvgBody(stats, t) ==
    AvgBodyOf(stats, Get(t, "category", PyStr("Unknown")),
              Get(t, "resolution_minutes", PyInt(0)))

(* The second loop: one average per group. *)
Averages(stats) ==
    [cat \in DOMAIN stats |->
        IF stats[cat].count > 0
        THEN FloatRound2(TrueDiv(stats[cat].total, stats[cat].count))
        ELSE PyInt(0)]

RECURSIVE AvgLoop(_, _, _)
RECURSIVE AvgLoopAfter(_, _, _)

(* The grouping loop after the body gave b for the ticket at position i. *)
AvgLoopAfter(tks, i, b) == IF b.raised THEN b ELSE AvgLoop(tks, i + 1, b.stats)

(* The grouping loop run from 0-based position i to the end. *)
AvgLoop(tks, i, stats) ==
    IF i >= Len(tks) THEN [raised |-> FALSE, stats |-> stats]
    ELSE AvgLoopAfter(tks, i, AvgBody(stats, tks[i + 1]))

(* What the function leaves behind once the grouping loop gave l. *)
AvgResult(l) == IF l.raised THEN Raised("TypeError") ELSE Returned(Averages(l.stats))

get_average_resolution_by_category(tks) == AvgResult(AvgLoop(tks, 0, EmptyDict))

-----------------------------------------------------------------------------
(* get_escalation_rates *)

EscInit == [category_counts |-> EmptyDict, total_tickets |-> 0, total_critical |-> 0]

(* {'total': 0, 'critical': 0} *)
NewCounts == [total |-> 0, critical |-> 0]

(* category_counts[cat]['total'] += 1, and ['critical'] += 1 if critical *)
Counted(counts, key, is_critical) ==
    [counts EXCEPT ![key] = [total |-> @.total + 1,
                             critical |-> @.critical + is_critical]]

EscStore(st, key, is_critical) ==
    [raised |-> FALSE,
     st |-> [category_counts |->
                 Counted(WithGroup(st.category_counts, key, NewCounts), key, is_critical),
             total_tickets |-> st.total_tickets + 1,
             total_critical |-> st.total_critical + is_critical]]

(* The body after cat and priority are read. *)
EscBodyOf(st, cat, priority) ==
    IF ~Hashable(cat) THEN [raised |-> TRUE, st |-> st]
    ELSE EscStore(st, DictKey(st.category_counts, cat),
                  IF priority = PyStr("Critical") THEN 1 ELSE 0)

(* Variant: an absent priority reads as Critical. *)
EscBody_default_critical(st, t) ==
    EscBodyOf(st, Get(t, "category", PyStr("Unknown")),
              Get(t, "priority", PyStr("Critical")))

(* One pass through the body of the counting loop for ticket t. *)
EscBody(st, t) ==
    EscBodyOf(st, Get(t, "category", PyStr("Unknown")),
              Get(t, "priority", PyStr("Low")))

RECURSIVE EscLoop(_, _, _)
RECURSIVE EscLoopAfter(_, _, _)

EscLoopAfter(tks, i, b) == IF b.raised THEN b ELSE EscLoop(tks, i + 1, b.st)

EscLoop(tks, i, st) ==
    IF i >= Len(tks) THEN [raised |-> FALSE, st |-> st]
    ELSE EscLoopAfter(tks, i, EscBody(st, tks[i + 1]))

(* round((critical / total) * 100, 2) *)
Rate(critical, total) == FloatRound2(FloatMul100(TrueDiv(PyInt(critical), total)))

(* Variant: a category's rate is taken over all tickets. *)
Rates_over_all_tickets(st) ==
    [overall_rate |-> IF st.total_tickets > 0
                      THEN Rate(st.total_critical, st.total_tickets)
                      ELSE PyFloat(0, 1),
     by_category |->
        [cat \in {c \in DOMAIN st.category_counts : st.category_counts[c].total > 0} |->
            Rate(st.category_counts[cat].critical, st.total_tickets)]]

(* The rates dict built after the counting loop. *)
Rates(st) ==
    [overall_rate |-> IF st.total_tickets > 0
                      THEN Rate(st.total_critical, st.total_tickets)
                      ELSE PyFloat(0, 1),
     by_category |->
        [cat \in {c \in DOMAIN st.category_counts : st.category_counts[c].total > 0} |->
            Rate(st.category_counts[cat].critical, st.category_counts[cat].total)]]

(* What the function leaves behind once the counting loop gave l. *)
EscResult(l) == IF l.raised THEN Raised("TypeError") ELSE Returned(Rates(l.st))

get_escalation_rates(tks) == EscResult(EscLoop(tks, 0, EscInit))

-----------------------------------------------------------------------------
(* generate_final_report *)

(* The report dict of the two summaries, or the exception one of them raised. *)
ReportOf(tks, averages, escalations, status) ==
    IF averages.raised THEN averages
    ELSE IF escalations.raised THEN escalations
    ELSE Returned([meta |-> [total_records |-> Len(tks), status |-> status],
                   averages |-> averages.value,
                   escalations |-> escalations.value])

(* Variant: the status reports the invalid records. *)
generate_final_report_validating(tks) ==
    ReportOf(tks, get_average_resolution_by_category(tks), get_escalation_rates(tks),
             IF find_invalid_resolutions(tks) = <<>> THEN "Success" ELSE "Partial")

generate_final_report(tks) ==
    ReportOf(tks, get_average_resolution_by_category(tks), get_escalation_rates(tks),
             "Success")

-----------------------------------------------------------------------------
(* Inputs *)

IdVals == {Absent, PyStr("T-1")}

CategoryVals == {Absent, PyStr("A"), PyStr("Unknown")}

PriorityVals == {Absent, PyStr("Critical"), PyStr("Low"), PyStr("critical")}

(* 0.1 is a float that binary floating point does not hold exactly; the    *)
(* sum of two MaxFloat overflows.                                          *)
MinutesVals ==
    {Absent, None, PyInt(1), PyInt(2), PyStr("bad"), PyBool(TRUE),
     PyFloat(1, 10), MaxFloat}

(* Tickets that differ in which keys they hold; a held value may be null. *)
KeyTickets ==
    {MkTicket(id, cat, Absent, mins) :
        id \in IdVals, cat \in {Absent, PyStr("A")}, mins \in {Absent, None}}

(* Tickets that differ in resolution_minutes and ticket_id. *)
ResolutionTickets ==
    {MkTicket(id, Absent, Absent, mins) : id \in IdVals, mins \in MinutesVals}

(* Tickets that differ in category and resolution_minutes. *)
AverageTickets ==
    {MkTicket(Absent, cat, Absent, mins) :
        cat \in {Absent, PyStr("A")}, mins \in MinutesVals}

(* Tickets that differ in category and priority. *)
EscalationTickets ==
    {MkTicket(Absent, cat, pri, Absent) : cat \in CategoryVals, pri \in PriorityVals}

(* Tickets that differ in category, priority and resolution_minutes. *)
ReportTickets ==
    {MkTicket(Absent, cat, pri, mins) :
        cat \in {Absent, PyStr("A")},
        pri \in {Absent, PyStr("Critical")},
        mins \in {Absent, PyInt(1), PyStr("bad")}}

(* Tickets whose category may be a list. *)
MalformedTickets ==
    {MkTicket(Absent, cat, pri, mins) :
        cat \in {Absent, PyStr("A"), PyList("A")},
        pri \in {Absent, PyStr("Critical")},
        mins \in {PyInt(1), PyStr("bad")}}

(* The sequences of at most MaxLen tickets of S. *)
TicketsOver(S) == UNION {[1..n -> S] : n \in 0..MaxLen}

InitWith(S, RK) ==
    /\ tickets \in TicketsOver(S)
    /\ snapshot = tickets
    /\ required_keys \in RK
    /\ pc = "ready"
    /\ fn = "none"
    /\ index = 0
    /\ temp_stats = EmptyDict
    /\ result = NoResult

DefaultRequired == {{"ticket_id", "resolution_minutes"}}

Init == InitWith(ReportTickets, DefaultRequired)

InitKeys == InitWith(KeyTickets, SUBSET Keys)

InitResolutions == InitWith(ResolutionTickets, DefaultRequired)

InitAverages == InitWith(AverageTickets, DefaultRequired)

InitEscalations == InitWith(EscalationTickets, DefaultRequired)

InitMalformed == InitWith(MalformedTickets, DefaultRequired)

-----------------------------------------------------------------------------
(* Calls.  A call starts when no call is running; the caller may make any  *)
(* call after any other.  get_average_resolution_by_category runs its      *)
(* grouping loop one ticket per step; the other calls are single steps.    *)

CallValidateKeys ==
    /\ pc # "avg_loop"
    /\ fn' = "validate_keys"
    /\ result' = Returned(validate_keys(tickets, required_keys))
    /\ pc' = "done"
    /\ index' = 0
    /\ temp_stats' = EmptyDict
    /\ UNCHANGED <<tickets, snapshot, required_keys>>

CallFindInvalidResolutions ==
    /\ pc # "avg_loop"
    /\ fn' = "find_invalid_resolutions"
    /\ result' = Returned(find_invalid_resolutions(tickets))
    /\ pc' = "done"
    /\ index' = 0
    /\ temp_stats' = EmptyDict
    /\ UNCHANGED <<tickets, snapshot, required_keys>>

(* temp_stats = {} *)
AvgEnter ==
    /\ pc # "avg_loop"
    /\ fn' = "get_average_resolution_by_category"
    /\ result' = NoResult
    /\ pc' = "avg_loop"
    /\ index' = 0
    /\ temp_stats' = EmptyDict
    /\ UNCHANGED <<tickets, snapshot, required_keys>>

(* What one pass leaves in the state, for b the outcome of the body. *)
AvgStep(b) ==
    IF b.raised
    THEN /\ result' = Raised("TypeError")
         /\ pc' = "done"
         /\ UNCHANGED <<index, temp_stats>>
    ELSE /\ temp_stats' = b.stats
         /\ index' = index + 1
         /\ UNCHANGED <<result, pc>>

(* Variant: the body takes resolution_minutes out of the ticket (pop). *)
AvgIterate_pop ==
    /\ pc = "avg_loop"
    /\ index < Len(tickets)
    /\ AvgStep(AvgBody(temp_stats, tickets[index + 1]))
    /\ tickets' = [tickets EXCEPT ![index + 1] =
                      [k \in DOMAIN @ \ {"resolution_minutes"} |-> @[k]]]
    /\ UNCHANGED <<snapshot, required_keys, fn>>

(* for t in tickets: one pass through the body *)
AvgIterate ==
    /\ pc = "avg_loop"
    /\ index < Len(tickets)
    /\ AvgStep(AvgBody(temp_stats, tickets[index + 1]))
    /\ UNCHANGED <<tickets, snapshot, required_keys, fn>>

(* the loop is over: build averages and return it *)
AvgReturn ==
    /\ pc = "avg_loop"
    /\ index = Len(tickets)
    /\ result' = Returned(Averages(temp_stats))
    /\ pc' = "done"
    /\ UNCHANGED <<tickets, snapshot, required_keys, fn, index, temp_stats>>

CallGetEscalationRates ==
    /\ pc # "avg_loop"
    /\ fn' = "get_escalation_rates"
    /\ result' = get_escalation_rates(tickets)
    /\ pc' = "done"
    /\ index' = 0
    /\ temp_stats' = EmptyDict
    /\ UNCHANGED <<tickets, snapshot, required_keys>>

CallGenerateFinalReport ==
    /\ pc # "avg_loop"
    /\ fn' = "generate_final_report"
    /\ result' = generate_final_report(tickets)
    /\ pc' = "done"
    /\ index' = 0
    /\ temp_stats' = EmptyDict
    /\ UNCHANGED <<tickets, snapshot, required_keys>>

Next ==
    \/ CallValidateKeys
    \/ CallFindInvalidResolutions
    \/ AvgEnter
    \/ AvgIterate
    \/ AvgReturn
    \/ CallGetEscalationRates
    \/ CallGenerateFinalReport

Spec == Init /\ [][Next]_vars

SpecKeys == InitKeys /\ [][Next]_vars

SpecResolutions == InitResolutions /\ [][Next]_vars

SpecAverages == InitAverages /\ [][Next]_vars

SpecEscalations == InitEscalations /\ [][Next]_vars

SpecMalformed == InitMalformed /\ [][Next]_vars

-----------------------------------------------------------------------------
(* Vocabulary of the properties, stated over the input alone. *)

Positions == 0..(Len(tickets) - 1)

(* The ticket at 0-based position i. *)
TicketAt(i) == tickets[i + 1]

HasKey(i, key) == key \in DOMAIN TicketAt(i)

(* The grouping category of the ticket at position i. *)
CategoryAt(i) == IF HasKey(i, "category") THEN TicketAt(i)["category"] ELSE PyStr("Unknown")

CategoriesPresent == {CategoryAt(i) : i \in Positions}

PositionsOf(c) == {i \in Positions : CategoryAt(i) = c}

(* resolution_minutes counts as a number: absent (defaulted to 0) or numeric. *)
CountedAt(i) ==
    \/ ~HasKey(i, "resolution_minutes")
    \/ TicketAt(i)["resolution_minutes"].kind \in {"int", "bool", "float"}

(* The contribution of position i to its group's sum, in hundredths, for  *)
(* an integer or absent resolution_minutes.                                *)
ContributionAt(i) ==
    IF HasKey(i, "resolution_minutes")
    THEN 100 * TicketAt(i)["resolution_minutes"].num
    ELSE 0

CriticalAt(i) == HasKey(i, "priority") /\ TicketAt(i)["priority"] = PyStr("Critical")

(* The sum of f over the finite set S. *)
RECURSIVE SumOver(_, _)
SumOver(f, S) ==
    IF S = {} THEN 0
    ELSE LET x == CHOOSE y \in S : TRUE
         IN  f[x] + SumOver(f, S \ {x})

(* h hundredths is n/d rounded to the nearest hundredth (n in hundredths). *)
IsNearest(h, n, d) ==
    LET diff == h * d - n
    IN  2 * (IF diff < 0 THEN -diff ELSE diff) <= d

(* v is a float with two decimals: the float literal h/100 of an integer h. *)
IsTwoDecimalFloat(v) ==
    /\ v.kind = "float"
    /\ v = FloatOfQuotient(v.sign, RoundedHundredths(v), 0, 100)

(* The number of hundredths nearest to the float v. *)
HundredthsOf(v) == (IF v.sign = 1 THEN -1 ELSE 1) * BigToNat(RoundedHundredths(v))

(* v is the number zero, int or float. *)
IsZeroNumber(v) == IF v.kind = "float" THEN IsZero(v) ELSE v.num = 0

Finished(name) == pc = "done" /\ fn = name

-----------------------------------------------------------------------------
(* C1: validate_keys returns exactly the indices of the tickets lacking at *)
(* least one required key, strictly ascending and below len(tickets); a    *)
(* ticket holding every required key, whatever the values, is not listed.  *)
C1_ValidateKeysExact ==
    Finished("validate_keys") =>
        LET r == result.value
            lacking == {i \in Positions : \E k \in required_keys : ~HasKey(i, k)}
        IN  /\ ~result.raised
            /\ \A k \in 1..Len(r) : r[k] \in Positions
            /\ \A j, k \in 1..Len(r) : j < k => r[j] < r[k]
            /\ {r[k] : k \in 1..Len(r)} = lacking

C1_Witness ==
    /\ Finished("validate_keys")
    /\ Len(result.value) >= 2
    /\ \E i \in Positions :
          /\ "resolution_minutes" \in required_keys
          /\ HasKey(i, "resolution_minutes")
          /\ TicketAt(i)["resolution_minutes"] = None
          /\ \A k \in 1..Len(result.value) : result.value[k] # i

(* C2: find_invalid_resolutions returns, in input order, one entry for     *)
(* each ticket whose resolution_minutes is absent, null or not an integer  *)
(* (a boolean is an integer) and none for any other; the entry carries the *)
(* index, the ticket_id or UNKNOWN, the raw value, and Missing exactly     *)
(* when the value was absent or null, else Wrong Type.                     *)
C2_InvalidResolutionsExact ==
    Finished("find_invalid_resolutions") =>
        LET r == result.value
            missing == {i \in Positions :
                           \/ ~HasKey(i, "resolution_minutes")
                           \/ TicketAt(i)["resolution_minutes"].kind = "NoneType"}
            wrong == {i \in Positions \ missing :
                         TicketAt(i)["resolution_minutes"].kind \notin {"int", "bool"}}
        IN  /\ ~result.raised
            /\ Len(r) = Cardinality(missing \cup wrong)
            /\ \A j, k \in 1..Len(r) : j < k => r[j].index < r[k].index
            /\ \A k \in 1..Len(r) :
                  LET i == r[k].index
                  IN  /\ i \in missing \cup wrong
                      /\ r[k].ticket_id = IF HasKey(i, "ticket_id")
                                          THEN TicketAt(i)["ticket_id"]
                                          ELSE PyStr("UNKNOWN")
                      /\ r[k].invalid_value = IF HasKey(i, "resolution_minutes")
                                              THEN TicketAt(i)["resolution_minutes"]
                                              ELSE None
                      /\ r[k].issue_type = IF i \in missing THEN "Missing" ELSE "Wrong Type"

C2_Witness ==
    /\ Finished("find_invalid_resolutions")
    /\ Len(result.value) = 2
    /\ result.value[1].issue_type = "Wrong Type"
    /\ result.value[1].ticket_id = PyStr("UNKNOWN")
    /\ result.value[2].issue_type = "Missing"
    /\ \E i \in Positions :
          /\ HasKey(i, "resolution_minutes")
          /\ TicketAt(i)["resolution_minutes"] = PyBool(TRUE)

-----------------------------------------------------------------------------
(* Vocabulary of the average properties. *)

(* The categories all of whose tickets hold a non-numeric resolution_minutes. *)
ExcludedCategories == {c \in CategoriesPresent : \A i \in PositionsOf(c) : ~CountedAt(i)}

CountedOf(c) == {i \in PositionsOf(c) : CountedAt(i)}

(* resolution_minutes is an integer, or absent, null or text. *)
IntegerValued ==
    \A i \in Positions :
        HasKey(i, "resolution_minutes") =>
            TicketAt(i)["resolution_minutes"].kind \in {"int", "NoneType", "str"}

(* The sum of the per-category counts of a temp_stats. *)
TotalCount(stats) == SumOver([c \in DOMAIN stats |-> stats[c].count], DOMAIN stats)

(* C3 as stated: a category all of whose tickets hold a non-numeric        *)
(* resolution_minutes still gets an entry, with average 0.                 *)
C3_ExcludedCategoryHasZeroEntry ==
    (Finished("get_average_resolution_by_category") /\ ~result.raised) =>
        \A c \in ExcludedCategories :
            /\ c \in DOMAIN result.value
            /\ IsZeroNumber(result.value[c])

(* C3 amended: the tickets of such a category are left out of sum and      *)
(* count, and the result has no entry for the category.                    *)
C3_ExcludedCategoryHasNoEntry ==
    (Finished("get_average_resolution_by_category") /\ ~result.raised) =>
        \A c \in ExcludedCategories :
            /\ c \notin DOMAIN temp_stats
            /\ c \notin DOMAIN result.value

C3_Witness ==
    /\ Finished("get_average_resolution_by_category")
    /\ ~result.raised
    /\ PyStr("Unknown") \in ExcludedCategories
    /\ \E i \in Positions : ~HasKey(i, "category") /\ ~CountedAt(i)
    /\ DOMAIN result.value = {PyStr("A")}

(* C4: with integer resolution_minutes values, each category with counted  *)
(* tickets is mapped to sum/count rounded to 2 decimals, over exactly the  *)
(* category's tickets whose value is numeric: an absent field adds 0 to    *)
(* the sum and 1 to the count, a null or text one adds to neither.         *)
C4_AverageIsSumOverCount ==
    (Finished("get_average_resolution_by_category") /\ IntegerValued) =>
        /\ ~result.raised
        /\ DOMAIN result.value \subseteq CategoriesPresent
        /\ \A c \in CategoriesPresent :
              CountedOf(c) # {} =>
                  /\ c \in DOMAIN result.value
                  /\ IsTwoDecimalFloat(result.value[c])
                  /\ IsNearest(HundredthsOf(result.value[c]),
                               SumOver([i \in Positions |-> ContributionAt(i)], CountedOf(c)),
                               Cardinality(CountedOf(c)))

C4_Witness ==
    /\ Finished("get_average_resolution_by_category")
    /\ IntegerValued
    /\ Len(tickets) = 3
    /\ CategoriesPresent = {PyStr("A")}
    /\ ~HasKey(0, "resolution_minutes")
    /\ HasKey(1, "resolution_minutes")
    /\ TicketAt(1)["resolution_minutes"] = PyInt(1)
    /\ HasKey(2, "resolution_minutes")
    /\ TicketAt(2)["resolution_minutes"] = None
    /\ result.value[PyStr("A")] = PyFloat(50, 100)

(* C5: during the grouping loop and at its end the per-category counts sum *)
(* to at most the number of tickets processed; at the end they sum to      *)
(* len(tickets) exactly when every resolution_minutes is numeric or absent.*)
C5_CountsBounded ==
    fn = "get_average_resolution_by_category" =>
        /\ index <= Len(tickets)
        /\ TotalCount(temp_stats) <= index
        /\ (pc = "done" /\ ~result.raised) =>
              /\ index = Len(tickets)
              /\ (TotalCount(temp_stats) = Len(tickets)) <=> (\A i \in Positions : CountedAt(i))

C5_Witness ==
    /\ fn = "get_average_resolution_by_category"
    /\ pc = "avg_loop"
    /\ index = 2
    /\ TotalCount(temp_stats) = 1

-----------------------------------------------------------------------------
(* Vocabulary of the escalation properties. *)

CriticalPositions == {i \in Positions : CriticalAt(i)}

(* The counters get_escalation_rates holds when its counting loop ends. *)
FinalCounts == EscLoop(tickets, 0, EscInit).st

(* h hundredths lies in [0, 100] and is n/d rounded to the nearest         *)
(* hundredth.                                                              *)
IsHundredthsOfRatio(h, n, d) == h \in 0..10000 /\ IsNearest(h, n, d)

(* The per-category totals of the counters st sum to len(tickets) and the  *)
(* per-category critical counts to the overall critical count.             *)
CountsAddUp(st) ==
    /\ SumOver([c \in DOMAIN st.category_counts |-> st.category_counts[c].total],
               DOMAIN st.category_counts) = Len(tickets)
    /\ SumOver([c \in DOMAIN st.category_counts |-> st.category_counts[c].critical],
               DOMAIN st.category_counts) = st.total_critical
    /\ st.total_critical = Cardinality(CriticalPositions)

(* C6: overall_rate lies in [0, 100] and is the number of tickets whose    *)
(* priority is exactly Critical over len(tickets), times 100, rounded to 2 *)
(* decimals; for no tickets the result is overall_rate 0.0 and an empty    *)
(* by_category.                                                            *)
C6_OverallRate ==
    Finished("get_escalation_rates") =>
        /\ ~result.raised
        /\ IsTwoDecimalFloat(result.value.overall_rate)
        /\ HundredthsOf(result.value.overall_rate) \in 0..10000
        /\ Len(tickets) > 0 =>
              IsNearest(HundredthsOf(result.value.overall_rate),
                        10000 * Cardinality(CriticalPositions), Len(tickets))
        /\ Len(tickets) = 0 =>
              result.value = [overall_rate |-> PyFloat(0, 1), by_category |-> EmptyDict]

C6_Witness ==
    /\ Finished("get_escalation_rates")
    /\ Len(tickets) = 3
    /\ Cardinality(CriticalPositions) = 2
    /\ \E i \in Positions : HasKey(i, "priority") /\ ~CriticalAt(i)
    /\ result.value.overall_rate = PyFloat(6667, 100)

(* C7: the keys of by_category are exactly the categories occurring in the *)
(* tickets (absent as Unknown), each mapped to its own critical/total      *)
(* times 100 rounded to 2 decimals, within [0, 100]; the per-category      *)
(* totals sum to len(tickets) and the per-category critical counts to the  *)
(* overall critical count.                                                 *)
C7_RatesByCategory ==
    Finished("get_escalation_rates") =>
        /\ ~result.raised
        /\ DOMAIN result.value.by_category = CategoriesPresent
        /\ \A c \in CategoriesPresent :
              /\ IsTwoDecimalFloat(result.value.by_category[c])
              /\ IsHundredthsOfRatio(HundredthsOf(result.value.by_category[c]),
                                     10000 * Cardinality(PositionsOf(c) \cap CriticalPositions),
                                     Cardinality(PositionsOf(c)))
        /\ CountsAddUp(FinalCounts)

C7_Witness ==
    /\ Finished("get_escalation_rates")
    /\ Len(tickets) = 3
    /\ \E i \in Positions : ~HasKey(i, "category")
    /\ DOMAIN result.value.by_category = {PyStr("A"), PyStr("Unknown")}
    /\ result.value.by_category[PyStr("A")] = PyFloat(50, 1)
    /\ result.value.by_category[PyStr("Unknown")] = PyFloat(100, 1)

-----------------------------------------------------------------------------
(* C8: generate_final_report returns meta.total_records = len(tickets),    *)
(* meta.status Success also when tickets hold invalid or missing fields,   *)
(* averages = get_average_resolution_by_category(tickets) and escalations  *)
(* = get_escalation_rates(tickets).                                        *)
C8_ReportComposition ==
    Finished("generate_final_report") =>
        /\ ~result.raised
        /\ DOMAIN result.value = {"meta", "averages", "escalations"}
        /\ result.value.meta = [total_records |-> Len(tickets), status |-> "Success"]
        /\ result.value.averages = get_average_resolution_by_category(tickets).value
        /\ result.value.escalations = get_escalation_rates(tickets).value

C8_Witness ==
    /\ Finished("generate_final_report")
    /\ Len(tickets) = 3
    /\ find_invalid_resolutions(tickets) # <<>>
    /\ \E i \in Positions : ~HasKey(i, "category")
    /\ result.value.meta.status = "Success"
    /\ result.value.averages # EmptyDict
    /\ result.value.escalations.overall_rate # PyFloat(0, 1)

(* C9: whatever the types of the field values, a list as category          *)
(* included, no function raises.                                           *)
C9_NoFunctionRaises == ~result.raised

(* C10: after any sequence of calls the ticket sequence and every record   *)
(* in it equal what the caller supplied, and the result of the call just   *)
(* made is the one the function gives on the supplied input alone.         *)
C10_InputUnchanged ==
    /\ tickets = snapshot
    /\ pc = "done" =>
          result = CASE fn = "validate_keys" ->
                            Returned(validate_keys(snapshot, required_keys))
                     [] fn = "find_invalid_resolutions" ->
                            Returned(find_invalid_resolutions(snapshot))
                     [] fn = "get_average_resolution_by_category" ->
                            get_average_resolution_by_category(snapshot)
                     [] fn = "get_escalation_rates" ->
                            get_escalation_rates(snapshot)
                     [] fn = "generate_final_report" ->
                            generate_final_report(snapshot)

C10_Witness ==
    /\ Finished("get_average_resolution_by_category")
    /\ Len(tickets) = 3
    /\ tickets = snapshot
    /\ \A i \in Positions : HasKey(i, "resolution_minutes") /\ HasKey(i, "category")
    /\ result.value # EmptyDict

====
